---- MODULE Spec2Model ----
(***************************************************************************)
(* Simulation kernel of vaziolabs/Society: the entity/component store      *)
(* (core/ecs/core.py), the world that ties it to the spatial grid          *)
(* (engine/world.py) and the population / epoch control loop               *)
(* (simulation/society/population.py).                                     *)
(*                                                                         *)
(* The neural networks of the agents (agent/network.py) are modelled next  *)
(* to it.                                                                  *)
(*                                                                         *)
(* Specifications defined over the same variables:                         *)
(*   SpecECS        arbitrary sequences of calls to the ECS and World API  *)
(*                  (create_entity, add_component, delete_entity,          *)
(*                  add_entity, remove_entity);                            *)
(*   SpecSystems    ECS.add_system and ECS.update;                         *)
(*   Spec           the simulation itself: ticks (Population.update),      *)
(*                  run_epoch, start_new_epoch and the World calls made    *)
(*                  between ticks;                                         *)
(*   SpecEpoch      run_epoch from a point of its loop on;                 *)
(*   SpecAction     Population.execute_action for the agents of a          *)
(*                  population in a world with workplaces and food;        *)
(*   SpecResources  World.create_food, World.create_work and the rollover; *)
(*   SpecFamily     Population.create_agent;                               *)
(*   SpecDQN        a DQNetwork under train, update_target_network and     *)
(*                  select_action;                                         *)
(*   SpecNpz        its main network saved and loaded between train calls. *)
(***************************************************************************)
EXTENDS Integers, Sequences, FiniteSets, TLC

VARIABLES
    world,            \* World: entities, population, ecs, spatial_grid, heap
    population,       \* Population.population: list of agent handles
    epoch,            \* Population.epoch
    pc,               \* position of the control flow
    in_epoch,         \* TRUE while run_epoch is on the stack
    step,             \* run_epoch's local `step`
    idx,              \* index of the next agent of the pass in Population.update
    agents_to_remove, \* Population.update's local batch
    metrics,          \* Population.metrics
    dqn,              \* a DQNetwork: its two networks, their arrays, epsilon
    files,            \* the files NeuralNetwork.save has written: name -> arrays
    hist              \* history: what the last call was, snapshots taken at call entry

vars == <<world, population, epoch, pc, in_epoch, step, idx, agents_to_remove, metrics,
          dqn, files, hist>>

(***************************************************************************)
(* Bounds of the model.                                                    *)
(***************************************************************************)
\* world.population_size (25 in World.__init__), scaled down
population_size == 2
\* world.food_count (5 in World.__init__), scaled down
food_count == 1
\* world.work_count (3 in World.__init__), scaled down
work_count == 1
\* number of Population.update and direct start_new_epoch calls explored
MaxCalls == 2
\* number of ECS entities created in SpecECS
MaxEntities == 2

(***************************************************************************)
(* Program constants.                                                      *)
(***************************************************************************)
max_steps == 1000
LifespanCap == 100
EnergyCap == 100
RestGainPerStamina == 10

\* positions, one per cell of the spatial grid
Cells == {1, 2}
EntityIds == 1..MaxEntities
Kinds == {"transform", "tag", "render", "animation", "behavior"}
Actions == {"eat", "work", "rest", "mate", "search"}

\* an entity object's ecs_id before World.add_entity sets it
NoId == 0
\* ECS.get_component's result for a missing component
None == [none |-> TRUE]

(***************************************************************************)
(* Finite maps (Python dicts).                                             *)
(***************************************************************************)
MapSet(f, k, v) == [x \in (DOMAIN f) \cup {k} |-> IF x = k THEN v ELSE f[x]]
MapDel(f, k) == [x \in (DOMAIN f) \ {k} |-> f[x]]
EmptyMap == [x \in {} |-> 0]

RECURSIVE SeqRemove(_, _)
\* list.remove(x): drops the first occurrence
SeqRemove(s, x) ==
    IF s = <<>> THEN <<>>
    ELSE IF Head(s) = x THEN Tail(s)
    ELSE <<Head(s)>> \o SeqRemove(Tail(s), x)

SeqSet(s) == {s[i] : i \in 1..Len(s)}

(***************************************************************************)
(* ECS (core/ecs/core.py).  An ecs value is a record                       *)
(*   entities: set of live ids, components: kind -> (id -> data),          *)
(*   systems: list of system names,                                        *)
(*   next_id: the id Entity() gives the next entity of this store.         *)
(***************************************************************************)
NewECS ==
    [entities |-> {}, components |-> [k \in {} |-> EmptyMap], systems |-> <<>>, next_id |-> 1]

\* the id ECS.create_entity returns
NewEntityId(e) == e.next_id

ECS_create_entity(e) ==
    [e EXCEPT !.entities = e.entities \cup {NewEntityId(e)}, !.next_id = e.next_id + 1]

ECS_delete_entity(e, id) ==
    IF id \in e.entities
    THEN [e EXCEPT !.components = [k \in DOMAIN e.components |-> MapDel(e.components[k], id)],
                   !.entities = e.entities \ {id}]
    ELSE e

ECS_add_component(e, id, kind, data) ==
    LET table == IF kind \in DOMAIN e.components THEN e.components[kind] ELSE EmptyMap
    IN  [e EXCEPT !.components = MapSet(e.components, kind, MapSet(table, id, data))]

\* ECS.get_component: the component, or None
ECS_get_component(e, id, kind) ==
    IF kind \in DOMAIN e.components /\ id \in DOMAIN e.components[kind]
    THEN e.components[kind][id]
    ELSE None

ECS_add_system(e, system) == [e EXCEPT !.systems = Append(e.systems, system)]

RECURSIVE UpdateSystems_LastFirst(_, _)
\* the loop of ECS.update over reversed(self.systems)
UpdateSystems_LastFirst(systems, invoked) ==
    IF systems = <<>> THEN invoked
    ELSE UpdateSystems_LastFirst(SubSeq(systems, 1, Len(systems) - 1),
                                 Append(invoked, systems[Len(systems)]))

RECURSIVE UpdateSystems(_, _)
\* for system in self.systems: system.update(dt); yields the calls made, in order
UpdateSystems(systems, invoked) ==
    IF systems = <<>> THEN invoked
    ELSE UpdateSystems(Tail(systems), Append(invoked, Head(systems)))

\* ECS.update(dt): the system.update calls it makes
ECS_update(e) == UpdateSystems(e.systems, <<>>)

(***************************************************************************)
(* SpatialGrid: cells (cell -> set of ids) and the reverse map             *)
(* entity_cells (id -> cell).                                              *)
(***************************************************************************)
NewSpatialGrid == [cells |-> [c \in Cells |-> {}], entity_cells |-> EmptyMap]

Grid_insert(g, id, cell) ==
    [cells |-> [g.cells EXCEPT ![cell] = g.cells[cell] \cup {id}],
     entity_cells |-> MapSet(g.entity_cells, id, cell)]

Grid_remove(g, id) ==
    IF id \in DOMAIN g.entity_cells
    THEN [cells |-> [g.cells EXCEPT ![g.entity_cells[id]] = g.cells[g.entity_cells[id]] \ {id}],
          entity_cells |-> MapDel(g.entity_cells, id)]
    ELSE g

\* the ids the grid records, in a bucket or in the reverse map
GridIds(g) == (DOMAIN g.entity_cells) \cup UNION {g.cells[c] : c \in Cells}

(***************************************************************************)
(* World (engine/world.py).  A world value w is a record                   *)
(*   entities, population: lists of object handles,                        *)
(*   ecs, spatial_grid,                                                    *)
(*   heap: the entity objects (handle = index), each                       *)
(*         [kind, ecs_id, pos, age, energy, stamina, metabolism].          *)
(***************************************************************************)
SystemNames == <<"render", "animation", "movement", "behavior", "navigation", "spatial">>

RECURSIVE AddSystems(_, _)
AddSystems(e, names) ==
    IF names = <<>> THEN e ELSE AddSystems(ECS_add_system(e, Head(names)), Tail(names))

World_setup_systems(w) == [w EXCEPT !.ecs = AddSystems(w.ecs, SystemNames)]

NewObject(kind, cell, age, energy, stamina, metabolism) ==
    [kind |-> kind, ecs_id |-> NoId, pos |-> cell, age |-> age, energy |-> energy,
     stamina |-> stamina, metabolism |-> metabolism]

\* allocate an entity object; its handle is Len(heap) afterwards
Alloc(w, o) == [w EXCEPT !.heap = Append(w.heap, o)]

\* types whose additional_assets give them an animation asset
Animated == {"agent"}

\* the ECS side of World.add_entity: create the ECS entity, attach the components,
\* insert into the grid
Register(w, h) ==
    LET o == w.heap[h]
        id == NewEntityId(w.ecs)
        e1 == ECS_create_entity(w.ecs)
        e2 == ECS_add_component(e1, id, "transform", [position |-> o.pos])
        e3 == ECS_add_component(e2, id, "tag", [tag |-> o.kind])
        e4 == ECS_add_component(e3, id, "render", [asset |-> o.kind])
        e5 == IF o.kind \in Animated
              THEN ECS_add_component(e4, id, "animation", [asset |-> o.kind]) ELSE e4
        e6 == IF o.kind = "agent"
              THEN ECS_add_component(e5, id, "behavior", [state |-> "idle", energy |-> o.energy])
              ELSE e5
    IN  [w EXCEPT !.heap[h].ecs_id = id,
                  !.ecs = e6,
                  !.spatial_grid = Grid_insert(w.spatial_grid, id, o.pos)]

World_add_entity(w, h) == Register([w EXCEPT !.entities = Append(w.entities, h)], h)

World_remove_entity_KeepsGrid(w, h) ==
    IF h \in SeqSet(w.entities)
    THEN [w EXCEPT !.entities = SeqRemove(w.entities, h),
                   !.ecs = ECS_delete_entity(w.ecs, w.heap[h].ecs_id)]
    ELSE w

World_remove_entity(w, h) ==
    IF h \in SeqSet(w.entities)
    THEN [w EXCEPT !.entities = SeqRemove(w.entities, h),
                   !.spatial_grid = Grid_remove(w.spatial_grid, w.heap[h].ecs_id),
                   !.ecs = ECS_delete_entity(w.ecs, w.heap[h].ecs_id)]
    ELSE w

NewWorld ==
    World_setup_systems(
        [entities |-> <<>>, population |-> <<>>, ecs |-> NewECS,
         spatial_grid |-> NewSpatialGrid, heap |-> <<>>])


\* what the entity factory attaches besides World.add_entity's components:
\* a workplace to a work entity, a wallet to an agent
MaxWorkers == 1
BaseWage == 10

FactoryComponents(e, id, kind) ==
    IF kind = "work"
    THEN ECS_add_component(e, id, "workplace",
             [workers |-> {}, max_workers |-> MaxWorkers, base_wage |-> BaseWage, expenses |-> 0])
    ELSE IF kind = "agent"
    THEN ECS_add_component(e, id, "wallet", [money |-> 0])
    ELSE e

\* entity_factory.create_entity(kind, position, screen): a new object, registered in the
\* ECS and in the spatial grid; the caller appends it to world.entities
Factory_create_entity(w, kind, cell) ==
    LET w1 == Alloc(w, NewObject(kind, cell, 0, 0, 1, 2))
        h == Len(w1.heap)
        w2 == Register(w1, h)
    IN  [w2 EXCEPT !.ecs = FactoryComponents(w2.ecs, w2.heap[h].ecs_id, kind)]

CountKind(w, kind) == Cardinality({i \in 1..Len(w.entities) : w.heap[w.entities[i]].kind = kind})

RECURSIVE CreateRange(_, _, _, _, _)
\* for i in range(from, to): create an entity of the kind at cells[i + 1], append it
CreateRange(w, kind, from, to, cells) ==
    IF from >= to THEN w
    ELSE LET w1 == Factory_create_entity(w, kind, cells[from + 1])
         IN  CreateRange([w1 EXCEPT !.entities = Append(w1.entities, Len(w1.heap))],
                         kind, from + 1, to, cells)

\* create_food without the count of line 100: food_count new entities at every call
World_create_food_Always(w, cells) == CreateRange(w, "food", 0, food_count, cells)

World_create_food(w, cells) == CreateRange(w, "food", CountKind(w, "food"), food_count, cells)

World_create_work(w, cells) == CreateRange(w, "work", CountKind(w, "work"), work_count, cells)

RECURSIVE RemoveAll(_, _)
\* for entity in entities_to_remove: self.remove_entity(entity)
RemoveAll(w, hs) ==
    IF hs = <<>> THEN w ELSE RemoveAll(World_remove_entity(w, Head(hs)), Tail(hs))

World_reset_world_KeepsECS(w) ==
    LET w1 == RemoveAll(w, w.entities)
    IN  World_setup_systems(
            [w1 EXCEPT !.entities = <<>>, !.population = <<>>,
                       !.spatial_grid = NewSpatialGrid])

World_reset_world(w) ==
    LET w1 == RemoveAll(w, w.entities)
    IN  World_setup_systems(
            [w1 EXCEPT !.entities = <<>>, !.population = <<>>, !.ecs = NewECS,
                       !.spatial_grid = NewSpatialGrid])

(***************************************************************************)
(* Population (simulation/society/population.py).                          *)
(***************************************************************************)
Min(a, b) == IF a < b THEN a ELSE b
Max(a, b) == IF a > b THEN a ELSE b

RECURSIVE SortedSeq(_)
\* the ids of a set in ascending order
SortedSeq(S) ==
    IF S = {} THEN <<>>
    ELSE LET m == CHOOSE x \in S : \A y \in S : x <= y
         IN  <<m>> \o SortedSeq(S \ {m})

\* spatial_grid.get_entities_by_tag(tag, x, y, radius): the ids of the agent's cell whose
\* tag component carries the tag
Grid_get_entities_by_tag(w, tag, cell) ==
    SortedSeq({id \in w.spatial_grid.cells[cell] :
                  ECS_get_component(w.ecs, id, "tag") = [tag |-> tag]})

ZeroReward == [num |-> 0, den |-> 1]

RECURSIVE TryWorkLoop_WalletOnly(_, _, _)
\* try_work's loop without line 172: the wage is paid, the expenses are not booked
TryWorkLoop_WalletOnly(w, h, workplaces) ==
    IF workplaces = <<>> THEN [world |-> w, reward |-> ZeroReward]
    ELSE LET workplace_id == Head(workplaces)
             workplace_comp == ECS_get_component(w.ecs, workplace_id, "workplace")
             agent_id == w.heap[h].ecs_id
         IN  IF workplace_comp # None
                /\ Cardinality(workplace_comp.workers) < workplace_comp.max_workers
             THEN LET joined == [workplace_comp EXCEPT !.workers = @ \cup {agent_id}]
                      w1 == [w EXCEPT !.ecs = ECS_add_component(w.ecs, workplace_id,
                                                                "workplace", joined)]
                      wallet_comp == ECS_get_component(w1.ecs, agent_id, "wallet")
                  IN  IF wallet_comp # None
                      THEN LET earned == joined.base_wage
                               e1 == ECS_add_component(w1.ecs, agent_id, "wallet",
                                         [wallet_comp EXCEPT !.money = @ + earned])
                           IN  [world |-> [w1 EXCEPT !.ecs = e1],
                                reward |-> [num |-> earned, den |-> 50]]
                      ELSE TryWorkLoop_WalletOnly(w1, h, Tail(workplaces))
             ELSE TryWorkLoop_WalletOnly(w, h, Tail(workplaces))

RECURSIVE TryWorkLoop(_, _, _)
\* the loop of try_work over the workplaces found; yields the world and the reward
TryWorkLoop(w, h, workplaces) ==
    IF workplaces = <<>> THEN [world |-> w, reward |-> ZeroReward]
    ELSE LET workplace_id == Head(workplaces)
             workplace_comp == ECS_get_component(w.ecs, workplace_id, "workplace")
             agent_id == w.heap[h].ecs_id
         IN  IF workplace_comp # None
                /\ Cardinality(workplace_comp.workers) < workplace_comp.max_workers
             THEN \* add_worker(agent.ecs_id) succeeds
                  LET joined == [workplace_comp EXCEPT !.workers = @ \cup {agent_id}]
                      w1 == [w EXCEPT !.ecs = ECS_add_component(w.ecs, workplace_id,
                                                                "workplace", joined)]
                      wallet_comp == ECS_get_component(w1.ecs, agent_id, "wallet")
                  IN  IF wallet_comp # None
                      THEN LET earned == joined.base_wage \* times 0.1, kept as tenths
                               e1 == ECS_add_component(w1.ecs, agent_id, "wallet",
                                         [wallet_comp EXCEPT !.money = @ + earned])
                               e2 == ECS_add_component(e1, workplace_id, "workplace",
                                         [joined EXCEPT !.expenses = @ + earned])
                           IN  [world |-> [w1 EXCEPT !.ecs = e2],
                                reward |-> [num |-> earned, den |-> 50]]
                      ELSE TryWorkLoop(w1, h, Tail(workplaces))
             ELSE TryWorkLoop(w, h, Tail(workplaces))

try_work(w, h) ==
    TryWorkLoop(w, h, Grid_get_entities_by_tag(w, "work", w.heap[h].pos))

try_eat(w, h) == [world |-> w, reward |-> ZeroReward]
try_mate(w, h) == [world |-> w, reward |-> ZeroReward]
try_search(w, h) == [world |-> w, reward |-> ZeroReward]

execute_action(w, h, action) ==
    CASE action = "eat" -> try_eat(w, h)
      [] action = "work" -> try_work(w, h)
      [] action = "rest" ->
            LET energy_gain == RestGainPerStamina * w.heap[h].stamina
            IN  [world |-> [w EXCEPT !.heap[h].energy = Min(EnergyCap, @ + energy_gain)],
                 reward |-> [num |-> energy_gain, den |-> 20]]
      [] action = "mate" -> try_mate(w, h)
      [] action = "search" -> try_search(w, h)

\* lines 98-100: age the agent, base energy consumption
AgeAndDecay(w, h) ==
    [w EXCEPT !.heap[h].age = @ + 1,
              !.heap[h].energy = @ - (w.heap[h].metabolism \div w.heap[h].stamina)]

\* line 103 without the test of the age
IsDead_EnergyOnly(o) == o.energy <= 0

\* line 103: the death conditions
IsDead(o) == o.energy <= 0 \/ o.age > LifespanCap

(***************************************************************************)
(* NeuralNetwork and DQNetwork (agent/network.py).  Numbers are quantised  *)
(* to integers: a parameter is a number of steps, the sigmoid has the      *)
(* three levels 0, 1, 2 (below, at and above one half), the learning rate  *)
(* and the discount factor enter as unit factors.  epsilon is kept in      *)
(* units of 10^-8.  Arrays are objects: a network holds references into    *)
(* dqn.arrays, `+=` writes through the reference, copy() and np.load make  *)
(* new objects.  The signals forward() leaves in the network object        *)
(* (hidden_inputs, hidden_outputs, final_inputs, final_outputs) are not    *)
(* parameters and are not kept.                                            *)
(***************************************************************************)
\* sizes of the networks, scaled down (hidden_size is 24 at line 104)
state_size == 2
hidden_size == 1
action_size == 2
\* number of DQNetwork.train calls explored
MaxTrain == 2

\* self.epsilon = 1.0, self.epsilon_min = 0.01, in units of 10^-8
InitialEpsilon == 100000000
epsilon_min == 1000000
\* self.epsilon_decay = 0.995, in thousandths
epsilon_decay == 995

ParamNames == {"weights_input_hidden", "weights_hidden_output", "bias_hidden", "bias_output"}
Refs == 1..(2 * Cardinality(ParamNames))

RECURSIVE SumTo(_, _)
\* f[1] + ... + f[n]
SumTo(f, n) == IF n = 0 THEN 0 ELSE f[n] + SumTo(f, n - 1)

\* np.dot of a row vector and a matrix with `cols` columns
Dot(v, M, cols) == [k \in 1..cols |-> SumTo([i \in 1..Len(v) |-> v[i] * M[i][k]], Len(v))]

VecMax(v) == CHOOSE m \in SeqSet(v) : \A x \in SeqSet(v) : x <= m

\* np.argmax: the 0-based index of the first maximal entry
np_argmax(v) == (CHOOSE k \in 1..Len(v) : v[k] = VecMax(v) /\ \A j \in 1..(k - 1) : v[j] # v[k]) - 1

sigmoid(x) == IF x < 0 THEN 0 ELSE IF x = 0 THEN 1 ELSE 2

sigmoid_derivative(x) == x * (2 - x)

\* NeuralNetwork.forward on parameter values p
forward(p, inputs) ==
    LET hidden_inputs == [j \in 1..hidden_size |->
                              Dot(inputs, p.weights_input_hidden, hidden_size)[j] + p.bias_hidden[j]]
        hidden_outputs == [j \in 1..hidden_size |-> sigmoid(hidden_inputs[j])]
        final_inputs == [k \in 1..action_size |->
                             Dot(hidden_outputs, p.weights_hidden_output, action_size)[k]
                                 + p.bias_output[k]]
    IN  [hidden_outputs |-> hidden_outputs,
         final_outputs |-> [k \in 1..action_size |-> sigmoid(final_inputs[k])]]

\* NeuralNetwork.train on parameter values p: the values the four arrays hold afterwards
NN_train(p, inputs, targets) ==
    LET f == forward(p, inputs)
        outputs == f.final_outputs
        output_errors == [k \in 1..action_size |-> targets[k] - outputs[k]]
        hidden_errors == [j \in 1..hidden_size |->
                              SumTo([k \in 1..action_size |->
                                         output_errors[k] * p.weights_hidden_output[j][k]],
                                    action_size)]
        go == [k \in 1..action_size |-> output_errors[k] * sigmoid_derivative(outputs[k])]
        gh == [j \in 1..hidden_size |-> hidden_errors[j] * sigmoid_derivative(f.hidden_outputs[j])]
    IN  [weights_hidden_output |->
             [j \in 1..hidden_size |-> [k \in 1..action_size |->
                 p.weights_hidden_output[j][k] + f.hidden_outputs[j] * go[k]]],
         bias_output |-> [k \in 1..action_size |-> p.bias_output[k] + go[k]],
         weights_input_hidden |->
             [i \in 1..state_size |-> [j \in 1..hidden_size |->
                 p.weights_input_hidden[i][j] + inputs[i] * gh[j]]],
         bias_hidden |-> [j \in 1..hidden_size |-> p.bias_hidden[j] + gh[j]]]

\* the values of the parameter arrays of a network (a record of references)
Params(d, nn) == [f \in ParamNames |-> d.arrays[nn[f]]]

UsedRefs(d) == {d.main_network[f] : f \in ParamNames} \cup {d.target_network[f] : f \in ParamNames}

\* net.f = <a new array holding value>: the attribute refers to a new object; the object
\* it referred to before is dropped unless something else refers to it
SetParam(d, net, f, value) ==
    LET old == d[net][f]
        others == {d.main_network[g] : g \in ParamNames \ (IF net = "main_network" THEN {f} ELSE {})}
                  \cup {d.target_network[g] : g \in ParamNames \ (IF net = "target_network" THEN {f} ELSE {})}
        free == Refs \ UsedRefs(d)
        slot == IF old \notin others THEN old ELSE CHOOSE r \in free : \A q \in free : r <= q
    IN  [d EXCEPT ![net][f] = slot, !.arrays[slot] = value]

\* update_target_network without the copies: the target attributes refer to main's arrays
DQN_update_target_network_NoCopy(d) == [d EXCEPT !.target_network = d.main_network]

\* DQNetwork.update_target_network (lines 117-122)
DQN_update_target_network(d) ==
    LET d1 == SetParam(d, "target_network", "weights_input_hidden",
                       d.arrays[d.main_network.weights_input_hidden])
        d2 == SetParam(d1, "target_network", "weights_hidden_output",
                       d1.arrays[d1.main_network.weights_hidden_output])
        d3 == SetParam(d2, "target_network", "bias_hidden", d2.arrays[d2.main_network.bias_hidden])
    IN  SetParam(d3, "target_network", "bias_output", d3.arrays[d3.main_network.bias_output])

\* the array values NeuralNetwork.__init__ can draw: weights, and biases of zeros
InitWeights ==
    { [weights_input_hidden |-> [i \in 1..state_size |-> [j \in 1..hidden_size |-> 0]],
       weights_hidden_output |-> [j \in 1..hidden_size |-> [k \in 1..action_size |-> 0]],
       bias_hidden |-> [j \in 1..hidden_size |-> 0],
       bias_output |-> [k \in 1..action_size |-> 0]],
      [weights_input_hidden |-> [i \in 1..state_size |-> [j \in 1..hidden_size |-> 0]],
       weights_hidden_output |-> [j \in 1..hidden_size |-> [k \in 1..action_size |-> k - action_size]],
       bias_hidden |-> [j \in 1..hidden_size |-> 0],
       bias_output |-> [k \in 1..action_size |-> 0]],
      [weights_input_hidden |-> [i \in 1..state_size |->
                                    [j \in 1..hidden_size |-> IF i = 1 THEN 1 ELSE -1]],
       weights_hidden_output |-> [j \in 1..hidden_size |->
                                     [k \in 1..action_size |-> IF k = 1 THEN 1 ELSE -1]],
       bias_hidden |-> [j \in 1..hidden_size |-> 0],
       bias_output |-> [k \in 1..action_size |-> 0]] }

\* DQNetwork.__init__ (lines 98-115): two networks with their own arrays, the target
\* synced with the main network, the hyperparameters
NewDQNetwork(wm, wt) ==
    DQN_update_target_network(
        [main_network |-> [weights_input_hidden |-> 1, weights_hidden_output |-> 2,
                           bias_hidden |-> 3, bias_output |-> 4],
         target_network |-> [weights_input_hidden |-> 5, weights_hidden_output |-> 6,
                             bias_hidden |-> 7, bias_output |-> 8],
         arrays |-> [r \in Refs |->
                        CASE r = 1 -> wm.weights_input_hidden
                          [] r = 2 -> wm.weights_hidden_output
                          [] r = 3 -> wm.bias_hidden
                          [] r = 4 -> wm.bias_output
                          [] r = 5 -> wt.weights_input_hidden
                          [] r = 6 -> wt.weights_hidden_output
                          [] r = 7 -> wt.bias_hidden
                          [] OTHER -> wt.bias_output],
         epsilon |-> InitialEpsilon])

\* encode_state (lines 124-162), for one feature with state_size levels: a one-hot
\* vector, every value that is not one of the first levels falling into the last slot
encode_state(level) ==
    [i \in 1..state_size |->
        IF i = (IF level \in 1..(state_size - 1) THEN level ELSE state_size) THEN 1 ELSE 0]

\* exploration_rate = None
NoRate == -1

\* select_action with the test `random.random() <= exploration_rate`
DQN_select_action_Inclusive(d, state, exploration_rate, random_random, random_randint) ==
    LET rate == IF exploration_rate = NoRate THEN d.epsilon ELSE exploration_rate
        q_values == forward(Params(d, d.main_network), encode_state(state)).final_outputs
    IN  IF random_random <= rate
        THEN [action |-> random_randint, explored |-> TRUE]
        ELSE [action |-> np_argmax(q_values), explored |-> FALSE]

\* DQNetwork.select_action (lines 164-179); random_random is the value random.random()
\* returns, in [0, 1), random_randint the value of random.randint(0, action_size - 1)
DQN_select_action(d, state, exploration_rate, random_random, random_randint) ==
    LET rate == IF exploration_rate = NoRate THEN d.epsilon ELSE exploration_rate
        q_values == forward(Params(d, d.main_network), encode_state(state)).final_outputs
    IN  IF random_random < rate
        THEN [action |-> random_randint, explored |-> TRUE]
        ELSE [action |-> np_argmax(q_values), explored |-> FALSE]

\* self.epsilon *= self.epsilon_decay, rounded to the unit
Decay(e) == e - ((e * (1000 - epsilon_decay) + 500) \div 1000)

\* DQNetwork.train (lines 181-205).  target[0][action] is numpy indexing: an index in
\* -action_size..-1 counts from the end, any other index outside 0..action_size-1 raises
\* IndexError before anything is written
DQN_train(d, state, action, reward, next_state, done) ==
    LET p == Params(d, d.main_network)
        current_q == forward(p, encode_state(state)).final_outputs
        next_q == forward(Params(d, d.target_network), encode_state(next_state)).final_outputs
    IN  IF action < -action_size \/ action >= action_size
        THEN [dqn |-> d, raised |-> TRUE]
        ELSE LET k == (IF action >= 0 THEN action ELSE action_size + action) + 1
                 target == [current_q EXCEPT ![k] = IF done THEN reward
                                                    ELSE reward + VecMax(next_q)]
                 q == NN_train(p, encode_state(state), target)
                 m == d.main_network
             IN  [dqn |-> [d EXCEPT !.arrays = [r \in Refs |->
                                      CASE r = m.weights_hidden_output -> q.weights_hidden_output
                                        [] r = m.bias_output -> q.bias_output
                                        [] r = m.weights_input_hidden -> q.weights_input_hidden
                                        [] r = m.bias_hidden -> q.bias_hidden
                                        [] OTHER -> d.arrays[r]],
                                    !.epsilon = IF d.epsilon > epsilon_min THEN Decay(@) ELSE @],
                  raised |-> FALSE]

\* the file np.savez(filename, ...) writes: ".npz" is appended unless the name ends in it
NpzName(filename) ==
    IF filename[Len(filename)] = "npz" THEN filename ELSE Append(filename, "npz")

\* NeuralNetwork.save (lines 78-86), of the main network: the files afterwards
NN_save(fs, d, filename) == MapSet(fs, NpzName(filename), Params(d, d.main_network))

\* NeuralNetwork.load (lines 88-94), of the main network; np.load opens the file of
\* exactly that name and raises FileNotFoundError when there is none
NN_load(fs, d, filename) ==
    IF filename \notin DOMAIN fs
    THEN [dqn |-> d, raised |-> TRUE]
    ELSE LET data == fs[filename]
             d1 == SetParam(d, "main_network", "weights_input_hidden", data.weights_input_hidden)
             d2 == SetParam(d1, "main_network", "weights_hidden_output", data.weights_hidden_output)
             d3 == SetParam(d2, "main_network", "bias_hidden", data.bias_hidden)
         IN  [dqn |-> SetParam(d3, "main_network", "bias_output", data.bias_output),
              raised |-> FALSE]

(***************************************************************************)
(* History kept for the properties.                                        *)
(*   op, id      the last completed call and the entity id it was given    *)
(*   attached    <<id, kind>>: add_component(id, kind, .) was called since *)
(*               id was created                                            *)
(*   registered  the ECS ids handed out by World.add_entity                *)
(*   calls       number of update and direct start_new_epoch calls started *)
(*   tick_pop    the population when the running update started            *)
(*   tick_zero   the agents whose energy was 0 when it started             *)
(*   pre         epoch, population and world when start_new_epoch started  *)
(*   epoch0      the epoch counter when run_epoch started                  *)
(*   net0, call  the DQNetwork before the last network call, its arguments *)
(*   result, raised, explored  what that call returned, whether it raised, *)
(*               whether select_action took the random branch              *)
(*   trains      number of train calls made                                *)
(*   synced      the main network's parameter values at the most recent    *)
(*               update_target_network                                     *)
(*   saved       the file name and the parameter values of the last save   *)
(*   agent, reward  the agent of the last execute_action call and the      *)
(*               reward it returned (pre holds the world before the call)  *)
(*   processed   for each agent the running update has processed: its      *)
(*               handle, its age before, its energy after its action       *)
(*   added       the arguments of the add_system calls made on the ECS, in *)
(*               call order                                                *)
(*   invoked     the system.update calls the last ECS.update made          *)
(*   created     which of create_food / create_work run_epoch called after *)
(*               the last tick                                             *)
(*   parents     the parents given to the last create_agent call           *)
(***************************************************************************)
Snapshot == [epoch |-> epoch, population |-> population, world |-> world]

NoSnapshot == [epoch |-> 0, population |-> <<>>, world |-> NewWorld]

\* the arguments of a DQNetwork or NeuralNetwork call, those it does not take at 0
NoCall == [state |-> 0, action |-> 0, reward |-> 0, next_state |-> 0, done |-> FALSE,
           exploration_rate |-> 0, filename |-> <<>>]

InitHist ==
    [op |-> "init", id |-> NoId, attached |-> {}, registered |-> {}, calls |-> 0,
     tick_pop |-> <<>>, tick_zero |-> {}, pre |-> NoSnapshot, epoch0 |-> 0,
     net0 |-> None, call |-> NoCall, result |-> 0, raised |-> FALSE, explored |-> FALSE,
     trains |-> 0, synced |-> None, saved |-> None,
     agent |-> 0, reward |-> ZeroReward, processed |-> <<>>,
     added |-> <<>>, invoked |-> <<>>, created |-> {}, parents |-> <<>>]

InitMetrics == [population_size |-> <<>>, deaths_this_epoch |-> 0, births_this_epoch |-> 0]

(***************************************************************************)
(* SpecECS: the ECS and World API under arbitrary call sequences, from a   *)
(* freshly constructed world.                                              *)
(***************************************************************************)
InitECS ==
    /\ world = NewWorld
    /\ population = <<>>
    /\ epoch = 0
    /\ pc = "idle"
    /\ in_epoch = FALSE
    /\ step = 0
    /\ idx = 0
    /\ agents_to_remove = <<>>
    /\ metrics = InitMetrics
    /\ dqn = None
    /\ files = EmptyMap
    /\ hist = InitHist

\* the network object and the files, which the simulation kernel does not touch
network == <<dqn, files>>

control == <<population, epoch, pc, in_epoch, step, idx, agents_to_remove, metrics, dqn, files>>

\* a direct call ECS.create_entity()
EcsCreateEntity ==
    /\ NewEntityId(world.ecs) <= MaxEntities
    /\ world' = [world EXCEPT !.ecs = ECS_create_entity(world.ecs)]
    /\ hist' = [hist EXCEPT !.op = "create_entity", !.id = NewEntityId(world.ecs)]
    /\ UNCHANGED control

\* a direct call ECS.add_component(id, kind, component), live id or not
EcsAddComponent ==
    \E id \in EntityIds, kind \in {"transform", "tag"} :
        /\ world' = [world EXCEPT !.ecs = ECS_add_component(world.ecs, id, kind, [data |-> kind])]
        /\ hist' = [hist EXCEPT !.op = "add_component", !.id = id,
                                !.attached = hist.attached \cup {<<id, kind>>}]
        /\ UNCHANGED control

\* a direct call ECS.delete_entity(id), live id or not
EcsDeleteEntity ==
    \E id \in EntityIds :
        /\ world' = [world EXCEPT !.ecs = ECS_delete_entity(world.ecs, id)]
        /\ hist' = [hist EXCEPT !.op = "delete_entity", !.id = id]
        /\ UNCHANGED control

\* World.add_entity(entity) with a new entity object
WorldAddEntity ==
    \E kind \in {"agent", "food", "work"}, cell \in Cells :
        /\ NewEntityId(world.ecs) <= MaxEntities
        /\ LET w1 == Alloc(world, NewObject(kind, cell, 0, EnergyCap, 1, 2))
               h == Len(w1.heap)
           IN  world' = World_add_entity(w1, h)
        /\ hist' = [hist EXCEPT !.op = "add_entity", !.id = NewEntityId(world.ecs),
                                !.registered = hist.registered \cup {NewEntityId(world.ecs)},
                                !.attached = hist.attached \cup
                                    {<<NewEntityId(world.ecs), k>> : k \in
                                        {"transform", "tag", "render"}
                                        \cup (IF kind = "agent" THEN {"animation", "behavior"} ELSE {})}]
        /\ UNCHANGED control

\* World.remove_entity(entity) with any entity object ever added
WorldRemoveEntity ==
    \E h \in 1..Len(world.heap) :
        /\ world' = World_remove_entity(world, h)
        /\ hist' = [hist EXCEPT !.op = IF h \in SeqSet(world.entities)
                                        THEN "remove_entity" ELSE "remove_entity_noop",
                                !.id = world.heap[h].ecs_id]
        /\ UNCHANGED control

NextECS ==
    \/ EcsCreateEntity
    \/ EcsAddComponent
    \/ EcsDeleteEntity
    \/ WorldAddEntity
    \/ WorldRemoveEntity

SpecECS == InitECS /\ [][NextECS]_vars

(***************************************************************************)
(* Spec: the simulation.  The population is the one initialize_population  *)
(* built, its agents at the ages and energies earlier ticks can leave.     *)
(***************************************************************************)
\* a young agent, an agent at the lifespan cap, an agent whose energy is 0
AgentInits ==
    { [age |-> 0, energy |-> 50, stamina |-> 2, metabolism |-> 2, pos |-> 1],
      [age |-> LifespanCap, energy |-> 50, stamina |-> 1, metabolism |-> 2, pos |-> 1],
      [age |-> 0, energy |-> 0, stamina |-> 1, metabolism |-> 2, pos |-> 1] }

RECURSIVE AddAgents(_, _)
\* allocate the agents and World.add_entity each, in order
AddAgents(w, inits) ==
    IF inits = <<>> THEN w
    ELSE LET a == Head(inits)
             w1 == Alloc(w, NewObject("agent", a.pos, a.age, a.energy, a.stamina, a.metabolism))
         IN  AddAgents(World_add_entity(w1, Len(w1.heap)), Tail(inits))

\* Population.initialize_population(size)
initialize_population(w, inits) == AddAgents(w, inits)

\* the world after initialize_population and, possibly, World.create_work()
Init ==
    \E inits \in [1..population_size -> AgentInits],
       with_work \in BOOLEAN, wcells \in [1..work_count -> Cells] :
        /\ world = IF with_work
                   THEN World_create_work(initialize_population(NewWorld, inits), wcells)
                   ELSE initialize_population(NewWorld, inits)
        /\ population = [i \in 1..population_size |-> i]
        /\ epoch = 0
        /\ pc = "idle"
        /\ in_epoch = FALSE
        /\ step = 0
        /\ idx = 0
        /\ agents_to_remove = <<>>
        /\ metrics = InitMetrics
        /\ dqn = None
        /\ files = EmptyMap
        /\ hist = InitHist

\* entry of Population.update: the batch is empty, the pass starts with the first agent
UpdateBegin ==
    /\ hist.calls < MaxCalls
    /\ pc' = "update"
    /\ idx' = 1
    /\ agents_to_remove' = <<>>
    /\ hist' = [hist EXCEPT !.op = "update_begin", !.calls = @ + 1,
                            !.tick_pop = population,
                            !.tick_zero = {h \in SeqSet(population) : world.heap[h].energy = 0}]

\* tick(): Population.update called from outside run_epoch
Tick ==
    /\ pc = "idle"
    /\ UpdateBegin
    /\ UNCHANGED <<world, population, epoch, in_epoch, step, metrics, dqn, files>>

\* the iteration with lines 99-100 moved before the action
UpdateAgentBody_DecayFirst(action) ==
    LET h == population[idx]
        w1 == AgeAndDecay(world, h)
        w2 == execute_action(w1, h, action).world
        dead == IsDead(w2.heap[h])
    IN  /\ world' = IF dead THEN World_remove_entity(w2, h) ELSE w2
        /\ agents_to_remove' = IF dead THEN Append(agents_to_remove, h) ELSE agents_to_remove

\* one iteration of the loop of Population.update (lines 71-105) for the agent at idx
UpdateAgentBody(action) ==
    LET h == population[idx]
        w1 == execute_action(world, h, action).world
        w2 == AgeAndDecay(w1, h)
        dead == IsDead(w2.heap[h])
    IN  /\ world' = IF dead THEN World_remove_entity(w2, h) ELSE w2
        /\ agents_to_remove' = IF dead THEN Append(agents_to_remove, h) ELSE agents_to_remove

UpdateAgent ==
    /\ pc = "update"
    /\ idx <= Len(population)
    /\ \E action \in Actions :
         /\ UpdateAgentBody(action)
         /\ hist' = [hist EXCEPT
                !.op = "update_agent",
                !.processed = Append(@,
                    [agent |-> population[idx],
                     age |-> world.heap[population[idx]].age,
                     acted |-> execute_action(world, population[idx], action)
                                   .world.heap[population[idx]].energy])]
    /\ idx' = idx + 1
    /\ UNCHANGED <<population, epoch, pc, in_epoch, step, metrics, dqn, files>>

\* the objects nothing refers to any more are garbage: their fields are forgotten
Garbage == NewObject("garbage", 1, 0, 0, 1, 2)
Collect(w, hs) == [w EXCEPT !.heap = [h \in 1..Len(w.heap) |-> IF h \in hs THEN Garbage ELSE w.heap[h]]]

RECURSIVE RemoveFromList(_, _)
\* for agent in agents_to_remove: self.population.remove(agent)
RemoveFromList(pop, hs) ==
    IF hs = <<>> THEN pop ELSE RemoveFromList(SeqRemove(pop, Head(hs)), Tail(hs))

\* lines 107-110, after the pass: the batch leaves the population
UpdateRemoveDead ==
    /\ pc = "update"
    /\ idx > Len(population)
    /\ population' = RemoveFromList(population, agents_to_remove)
    /\ metrics' = [metrics EXCEPT !.deaths_this_epoch = @ + Len(agents_to_remove)]
    /\ pc' = "updated"
    /\ hist' = [hist EXCEPT !.op = "update"]
    /\ UNCHANGED <<world, epoch, in_epoch, step, idx, agents_to_remove, dqn, files>>

\* lines 199-203 with the tests made on the number of the tick before
Replenish_TickBefore(w, s, cells, wcells) ==
    LET food == (s - 1) % 20 = 0
        work == (s - 1) % 50 = 0
        w1 == IF food THEN World_create_food(w, cells) ELSE w
        w2 == IF work THEN World_create_work(w1, wcells) ELSE w1
    IN  [world |-> w2,
         created |-> (IF food THEN {"food"} ELSE {}) \cup (IF work THEN {"work"} ELSE {})]

\* lines 199-203: the resources spawned after tick number s, and which create_ calls
\* were made
Replenish(w, s, cells, wcells) ==
    LET food == s % 20 = 0
        work == s % 50 = 0
        w1 == IF food THEN World_create_food(w, cells) ELSE w
        w2 == IF work THEN World_create_work(w1, wcells) ELSE w1
    IN  [world |-> w2,
         created |-> (IF food THEN {"food"} ELSE {}) \cup (IF work THEN {"work"} ELSE {})]

\* Population.update returns: to the caller of tick(), or into run_epoch's loop body
\* (lines 196-203)
UpdateReturn ==
    /\ pc = "updated"
    /\ LET w0 == Collect(world, SeqSet(agents_to_remove))
       IN  IF in_epoch
           THEN \E cells \in [1..food_count -> Cells], wcells \in [1..work_count -> Cells] :
                    LET r == Replenish(w0, step + 1, cells, wcells)
                    IN  /\ step' = step + 1
                        /\ world' = r.world
                        /\ pc' = "epoch_loop"
                        /\ hist' = [hist EXCEPT !.op = "update_return", !.tick_pop = <<>>,
                                                !.tick_zero = {}, !.processed = <<>>,
                                                !.created = r.created]
           ELSE /\ pc' = "idle"
                /\ world' = w0
                /\ hist' = [hist EXCEPT !.op = "update_return", !.tick_pop = <<>>,
                                        !.tick_zero = {}, !.processed = <<>>,
                                        !.created = {}]
                /\ UNCHANGED step
    /\ UNCHANGED <<population, epoch, in_epoch, idx, agents_to_remove, metrics, dqn, files>>

\* Population.run_epoch is called (lines 191-192)
RunEpoch ==
    /\ pc = "idle"
    /\ in_epoch' = TRUE
    /\ step' = 0
    /\ pc' = "epoch_loop"
    /\ hist' = [hist EXCEPT !.op = "run_epoch_begin", !.epoch0 = epoch]
    /\ UNCHANGED <<world, population, epoch, idx, agents_to_remove, metrics, dqn, files>>

\* the loop of run_epoch with the condition `step < max_steps` alone
EpochLoopIgnoresEmpty ==
    /\ pc = "epoch_loop"
    /\ IF step < max_steps
       THEN UpdateBegin
       ELSE /\ pc' = "epoch_end"
            /\ hist' = [hist EXCEPT !.op = "epoch_loop_end"]
            /\ UNCHANGED <<idx, agents_to_remove>>
    /\ UNCHANGED <<world, population, epoch, in_epoch, step, metrics, dqn, files>>

\* the loop condition of run_epoch (line 194)
EpochLoop ==
    /\ pc = "epoch_loop"
    /\ IF population # <<>> /\ step < max_steps
       THEN UpdateBegin
       ELSE /\ pc' = "epoch_end"
            /\ hist' = [hist EXCEPT !.op = "epoch_loop_end"]
            /\ UNCHANGED <<idx, agents_to_remove>>
    /\ UNCHANGED <<world, population, epoch, in_epoch, step, metrics, dqn, files>>

\* lines 220-230 with the target size recorded in place of the previous population's
StartNewEpochEnter_RecordsTarget ==
    /\ epoch' = epoch + 1
    /\ metrics' = [metrics EXCEPT !.population_size = Append(@, population_size)]
    /\ world' = World_reset_world(world)
    /\ pc' = "rollover"
    /\ hist' = [hist EXCEPT !.op = "reset_world", !.pre = Snapshot]

\* start_new_epoch up to and including world.reset_world() (lines 220-230)
StartNewEpochEnter ==
    /\ epoch' = epoch + 1
    /\ metrics' = [metrics EXCEPT !.population_size = Append(@, Len(population))]
    /\ world' = World_reset_world(world)
    /\ pc' = "rollover"
    /\ hist' = [hist EXCEPT !.op = "reset_world", !.pre = Snapshot]

EpochEndNeverRollsOver ==
    /\ pc' = "idle"
    /\ in_epoch' = FALSE
    /\ hist' = [hist EXCEPT !.op = "run_epoch"]
    /\ UNCHANGED <<world, population, epoch, step, idx, agents_to_remove, metrics, dqn, files>>

\* after the loop of run_epoch (lines 205-210): the rollover only for an empty population
EpochEndBody ==
    IF population = <<>>
    THEN /\ StartNewEpochEnter
         /\ UNCHANGED <<population, in_epoch, step, idx, agents_to_remove, dqn, files>>
    ELSE /\ pc' = "idle"
         /\ in_epoch' = FALSE
         /\ hist' = [hist EXCEPT !.op = "run_epoch"]
         /\ UNCHANGED <<world, population, epoch, step, idx, agents_to_remove, metrics, dqn, files>>

EpochEnd ==
    /\ pc = "epoch_end"
    /\ EpochEndBody

\* Population.start_new_epoch() called directly, with whatever population there is
StartNewEpochCall ==
    /\ pc = "idle"
    /\ hist.calls < MaxCalls
    /\ epoch' = epoch + 1
    /\ metrics' = [metrics EXCEPT !.population_size = Append(@, Len(population))]
    /\ world' = World_reset_world(world)
    /\ pc' = "rollover"
    /\ hist' = [hist EXCEPT !.op = "reset_world", !.pre = Snapshot, !.calls = @ + 1]
    /\ UNCHANGED <<population, in_epoch, step, idx, agents_to_remove, dqn, files>>

\* the agents Evolution.evolve_population returns: new objects, not yet in the world,
\* with one valid value for each trait
NewAgentInits ==
    { [age |-> 0, energy |-> EnergyCap, stamina |-> 1, metabolism |-> 2, pos |-> 1] }

RECURSIVE AllocAgents(_, _)
AllocAgents(w, inits) ==
    IF inits = <<>> THEN w
    ELSE LET a == Head(inits)
         IN  AllocAgents(
                 Alloc(w, NewObject("agent", a.pos, a.age, a.energy, a.stamina, a.metabolism)),
                 Tail(inits))

\* Evolution.evolve_population(previous_population, world): target_size agents
evolve_population(w, previous_population, inits) ==
    LET w1 == AllocAgents(w, inits)
    IN  [world |-> w1,
         new_population |-> [i \in 1..Len(inits) |-> Len(w.heap) + i]]

RECURSIVE AddEntities(_, _)
\* for agent in new_population: self.world.add_entity(agent)
AddEntities(w, hs) ==
    IF hs = <<>> THEN w ELSE AddEntities(World_add_entity(w, Head(hs)), Tail(hs))

RECURSIVE Repeat(_, _, _, _)
\* for _ in range(n): world.create_food() or world.create_work()
Repeat(w, n, kind, cells) ==
    IF n = 0 THEN w
    ELSE Repeat(IF kind = "food" THEN World_create_food(w, cells) ELSE World_create_work(w, cells),
                n - 1, kind, cells)

create_resources(w, cells, wcells) ==
    Repeat(Repeat(w, food_count, "food", cells), work_count, "work", wcells)

SubSeqTo(s, n) == [i \in 1..n |-> s[i]]

Aborted(w, op) ==
    /\ world' = w
    /\ pc' = "aborted"
    /\ in_epoch' = FALSE
    /\ hist' = [hist EXCEPT !.op = op]
    /\ UNCHANGED <<population, epoch, step, idx, agents_to_remove, metrics, dqn, files>>

\* lines 236-244 without the registration of the new agents
InstallSkipsAddEntity(ev, cells, wcells) ==
    /\ world' = create_resources(ev.world, cells, wcells)
    /\ population' = ev.new_population

\* lines 236-244: add the new population to the world, create the resources, install it
Install(ev, cells, wcells) ==
    /\ world' = create_resources(AddEntities(ev.world, ev.new_population), cells, wcells)
    /\ population' = ev.new_population

\* start_new_epoch from evolve_population on (lines 233-246)
Repopulate ==
    /\ pc = "rollover"
    /\ \E inits \in [1..population_size -> NewAgentInits] :
         LET ev == evolve_population(world, population, inits)
             \* once the new population is installed nothing refers to the old objects
             evc == evolve_population([world EXCEPT !.heap = <<>>], population, inits)
         IN  \/ \* evolve_population raises
                Aborted(world, "evolve_raised")
             \/ \* the k-th add_entity call raises after line 121
                \E k \in 1..population_size :
                    LET w1 == AddEntities(ev.world, SubSeqTo(ev.new_population, k - 1))
                    IN  Aborted([w1 EXCEPT !.entities = Append(@, ev.new_population[k])],
                                "add_entity_raised")
             \/ \* the rollover completes
                \E cells \in [1..food_count -> Cells], wcells \in [1..work_count -> Cells] :
                    /\ Install(evc, cells, wcells)
                    /\ pc' = "idle"
                    /\ in_epoch' = FALSE
                    /\ hist' = [hist EXCEPT !.op = IF in_epoch THEN "run_epoch_rollover"
                                                    ELSE "start_new_epoch",
                                            !.pre = NoSnapshot]
                    /\ UNCHANGED <<epoch, step, idx, agents_to_remove, metrics, dqn, files>>

Next ==
    \/ Tick
    \/ UpdateAgent
    \/ UpdateRemoveDead
    \/ UpdateReturn
    \/ RunEpoch
    \/ EpochLoop
    \/ EpochEnd
    \/ StartNewEpochCall
    \/ Repopulate

Spec == Init /\ [][Next]_vars

(***************************************************************************)
(* SpecDQN: one DQNetwork under arbitrary sequences of train,              *)
(* update_target_network and select_action.  The network is a new one, or  *)
(* one train was called on before.                                         *)
(***************************************************************************)
\* the numbers of train calls made on the network before
TrainedBefore == {0, 917}

RECURSIVE DecayN(_, _)
\* epsilon after n train calls (lines 204-205)
DecayN(e, n) ==
    IF n = 0 THEN e
    ELSE IF n = 1 THEN (IF e > epsilon_min THEN Decay(e) ELSE e)
    ELSE LET half == DecayN(e, n \div 2)
         IN  IF half >= 0 THEN DecayN(half, n - (n \div 2)) ELSE half

\* the feature levels of a state: 0 is a value encode_state does not know
Levels == 0..(state_size - 1)
\* action indices, valid and invalid
TrainActions == {-(action_size + 1), -1, 0, action_size - 1, action_size}
Rewards == {2}
\* exploration rates 0.0, 1.0 and None
Rates == {0, InitialEpsilon, NoRate}
\* values of random.random(): 0.0 and the largest value below 1.0
RandomValues == {0, InitialEpsilon - 1}
FileNames == {<<"net">>, <<"net", "npz">>}

simulation == <<world, population, epoch, pc, in_epoch, step, idx, agents_to_remove, metrics>>

InitDQN ==
    /\ world = NewWorld
    /\ population = <<>>
    /\ epoch = 0
    /\ pc = "idle"
    /\ in_epoch = FALSE
    /\ step = 0
    /\ idx = 0
    /\ agents_to_remove = <<>>
    /\ metrics = InitMetrics
    /\ files = EmptyMap
    /\ \E wm \in InitWeights, wt \in InitWeights, n \in TrainedBefore :
         /\ dqn = [NewDQNetwork(wm, wt) EXCEPT !.epsilon = DecayN(InitialEpsilon, n)]
         /\ hist = [InitHist EXCEPT !.synced = wm]

\* DQNetwork.train(state, action, reward, next_state, done)
DqnTrain ==
    /\ hist.trains < MaxTrain
    /\ \E state \in Levels, action \in TrainActions, reward \in Rewards, done \in BOOLEAN :
         LET next_state == (state + 1) % state_size
             r == DQN_train(dqn, state, action, reward, next_state, done)
         IN  /\ dqn' = r.dqn
             /\ hist' = [hist EXCEPT !.op = "train", !.net0 = dqn, !.raised = r.raised,
                                     !.result = 0, !.explored = FALSE, !.trains = @ + 1,
                                     !.call = [NoCall EXCEPT !.state = state, !.action = action,
                                                             !.reward = reward,
                                                             !.next_state = next_state,
                                                             !.done = done]]
    /\ UNCHANGED <<simulation, files>>

\* DQNetwork.update_target_network()
DqnUpdateTargetNetwork ==
    /\ dqn' = DQN_update_target_network(dqn)
    /\ hist' = [hist EXCEPT !.op = "update_target_network", !.net0 = dqn, !.raised = FALSE,
                            !.result = 0, !.explored = FALSE, !.call = NoCall, !.synced = Params(dqn, dqn.main_network)]
    /\ UNCHANGED <<simulation, files>>

\* DQNetwork.select_action(state, exploration_rate)
DqnSelectAction ==
    /\ \E state \in Levels, rate \in Rates, random_random \in RandomValues,
          random_randint \in 0..(action_size - 1) :
         LET r == DQN_select_action(dqn, state, rate, random_random, random_randint)
         IN  /\ dqn' = dqn
             /\ hist' = [hist EXCEPT !.op = "select_action", !.net0 = dqn, !.raised = FALSE,
                                     !.result = r.action, !.explored = r.explored,
                                     !.call = [NoCall EXCEPT !.state = state,
                                                             !.exploration_rate = rate]]
    /\ UNCHANGED <<simulation, files>>

\* main_network.save(filename)
DqnSave ==
    /\ \E filename \in FileNames :
         /\ files' = NN_save(files, dqn, filename)
         /\ hist' = [hist EXCEPT !.op = "save", !.net0 = dqn, !.raised = FALSE,
                                 !.result = 0, !.explored = FALSE,
                                 !.call = [NoCall EXCEPT !.filename = filename],
                                 !.saved = [filename |-> filename,
                                            params |-> Params(dqn, dqn.main_network)]]
    /\ UNCHANGED <<simulation, dqn>>

\* main_network.load(filename)
DqnLoad ==
    /\ \E filename \in FileNames :
         LET r == NN_load(files, dqn, filename)
         IN  /\ dqn' = r.dqn
             /\ hist' = [hist EXCEPT !.op = "load", !.net0 = dqn, !.raised = r.raised,
                                     !.result = 0, !.explored = FALSE,
                                     !.call = [NoCall EXCEPT !.filename = filename]]
    /\ UNCHANGED <<simulation, files>>

NextDQN ==
    \/ DqnTrain
    \/ DqnUpdateTargetNetwork
    \/ DqnSelectAction

SpecDQN == InitDQN /\ [][NextDQN]_vars

\* SpecNpz: the main network of a DQNetwork saved and loaded between train calls
NextNpz ==
    \/ DqnTrain
    \/ DqnSave
    \/ DqnLoad

SpecNpz == InitDQN /\ [][NextNpz]_vars

(***************************************************************************)
(* SpecAction: Population.execute_action called for the agents of a        *)
(* population that initialize_population built, in a world with            *)
(* workplaces and, possibly, food.  An agent has a wallet when one was     *)
(* attached to it with add_component (World.add_entity attaches none).     *)
(***************************************************************************)
\* number of workplaces in the world
Workplaces == 2

\* the agent of the rest scenario, and one whose energy is near the cap
ActionAgentInits ==
    { [age |-> 0, energy |-> 50, stamina |-> 2, metabolism |-> 2, pos |-> 1],
      [age |-> 0, energy |-> 95, stamina |-> 1, metabolism |-> 2, pos |-> 1] }

RECURSIVE AttachWallets(_, _)
\* ecs.add_component(agent.ecs_id, "wallet", WalletComponent()) for the agents given
AttachWallets(w, hs) ==
    IF hs = <<>> THEN w
    ELSE AttachWallets(
             [w EXCEPT !.ecs = ECS_add_component(w.ecs, w.heap[Head(hs)].ecs_id, "wallet",
                                                 [money |-> 0])],
             Tail(hs))

InitAction ==
    \E inits \in [1..population_size -> ActionAgentInits],
       with_wallet \in SUBSET (1..population_size),
       wcells \in [1..Workplaces -> Cells],
       with_food \in BOOLEAN :
        /\ world = LET w1 == AttachWallets(
                                 CreateRange(initialize_population(NewWorld, inits), "work", 0,
                                             Workplaces, wcells),
                                 SortedSeq(with_wallet))
                   IN  \* World.create_food(), the food landing in the agents' cell
                       IF with_food THEN World_create_food(w1, [i \in 1..food_count |-> 1])
                       ELSE w1
        /\ population = [i \in 1..population_size |-> i]
        /\ epoch = 0
        /\ pc = "idle"
        /\ in_epoch = FALSE
        /\ step = 0
        /\ idx = 0
        /\ agents_to_remove = <<>>
        /\ metrics = InitMetrics
        /\ dqn = None
        /\ files = EmptyMap
        /\ hist = InitHist

\* self.execute_action(agent, action) for an agent of the population
ExecuteAction ==
    /\ hist.calls < MaxCalls
    /\ \E i \in 1..Len(population), action \in Actions :
         LET r == execute_action(world, population[i], action)
         IN  /\ world' = r.world
             /\ hist' = [hist EXCEPT !.op = action, !.calls = @ + 1, !.pre = Snapshot,
                                     !.agent = population[i], !.reward = r.reward]
    /\ UNCHANGED control

NextAction == ExecuteAction

SpecAction == InitAction /\ [][NextAction]_vars

\* the ids for which some component table holds a component
ComponentIds(e) == UNION {DOMAIN e.components[k] : k \in DOMAIN e.components}

\* C1: once delete_entity(id) has returned, get_component(id, kind) is None for every kind
C1_DeletedHasNoComponent ==
    hist.op \in {"delete_entity", "remove_entity"} =>
        \A kind \in Kinds : ECS_get_component(world.ecs, hist.id, kind) = None

\* C2: get_component(E, kind) returns a component iff E is live and add_component(E, kind, .)
\* was called since E was created
C2_ComponentIffLiveAndAttached ==
    \A id \in EntityIds, kind \in Kinds :
        (ECS_get_component(world.ecs, id, kind) # None)
            <=> (id \in world.ecs.entities /\ <<id, kind>> \in hist.attached)

\* C3: a deleted entity is in no component table, not live and not in the grid, and the
\* grid records exactly the live ECS ids that World.add_entity registered
C3_DeletionIsAtomic ==
    /\ hist.op \in {"delete_entity", "remove_entity"} =>
           /\ hist.id \notin ComponentIds(world.ecs)
           /\ hist.id \notin world.ecs.entities
           /\ hist.id \notin GridIds(world.spatial_grid)
    /\ GridIds(world.spatial_grid) = world.ecs.entities \cap hist.registered


(***************************************************************************)
(* Properties of the simulation (Spec).                                    *)
(***************************************************************************)
Registered(w, h) ==
    /\ h \in SeqSet(w.entities)
    /\ w.heap[h].ecs_id \in w.ecs.entities
    /\ w.heap[h].ecs_id \in GridIds(w.spatial_grid)

Absent(w, h) ==
    /\ h \notin SeqSet(w.entities)
    /\ w.heap[h].ecs_id \notin w.ecs.entities
    /\ w.heap[h].ecs_id \notin ComponentIds(w.ecs)
    /\ w.heap[h].ecs_id \notin GridIds(w.spatial_grid)

\* the agents the finished update removed from the population
Removed == SeqSet(hist.tick_pop) \ SeqSet(population)

\* C4: while an agent of the pass remains to be processed, no agent has been removed from
\* the population list, from the ECS or from the spatial grid
C4_NoRemovalDuringPass ==
    (pc = "update" /\ idx <= Len(population)) =>
        /\ population = hist.tick_pop
        /\ \A h \in SeqSet(hist.tick_pop) : Registered(world, h)

\* C5: an agent whose energy is 0 when update starts is removed by that update: it is not
\* in the population, its id is not in the grid, and of two agents of which the other
\* survives exactly one is left
C5_ZeroEnergyAgentIsRemoved ==
    pc = "updated" =>
        /\ \A h \in hist.tick_zero :
               /\ h \notin SeqSet(population)
               /\ world.heap[h].ecs_id \notin GridIds(world.spatial_grid)
        /\ (Len(hist.tick_pop) = 2 /\ Cardinality(hist.tick_zero) = 1
                /\ SeqSet(hist.tick_pop) \ hist.tick_zero \subseteq SeqSet(population))
               => Len(population) = 1

\* C6: after every update each agent left in the population has energy > 0 and
\* age <= 100, and each agent the update removed is absent from world.entities, from
\* every component table and from the spatial grid
C6_SurvivorsAliveRemovedAbsent ==
    pc = "updated" =>
        /\ \A h \in SeqSet(population) :
               world.heap[h].energy > 0 /\ world.heap[h].age <= LifespanCap
        /\ \A h \in Removed : Absent(world, h)

C6_Witness ==
    /\ pc = "updated"
    /\ Removed # {}
    /\ population # <<>>

\* the world holds the new population and nothing from before the reset
NewPopulationInstalled ==
    /\ Len(population) = population_size
    /\ \A h \in SeqSet(population) : Registered(world, h) /\ world.heap[h].age = 0
    /\ world.ecs.entities = {world.heap[h].ecs_id : h \in SeqSet(world.entities)}

C8_RolloverIsTransactional ==
    pc = "aborted" =>
        /\ epoch = hist.pre.epoch
        /\ population = hist.pre.population
        /\ world.entities = hist.pre.world.entities
        /\ world.ecs = hist.pre.world.ecs
        /\ world.spatial_grid = hist.pre.world.spatial_grid

NoRepeats(q) == Cardinality(SeqSet(q)) = Len(q)

\* C9: after reset_world world.entities and world.population are empty, the ECS holds no
\* entity and no component, the grid holds no id, and in every state each configured
\* system is registered exactly once
C9_ResetWorldIsClean ==
    /\ hist.op = "reset_world" =>
           /\ world.entities = <<>>
           /\ world.population = <<>>
           /\ world.ecs.entities = {}
           /\ ComponentIds(world.ecs) = {}
           /\ GridIds(world.spatial_grid) = {}
    /\ SeqSet(world.ecs.systems) = SeqSet(SystemNames)
    /\ NoRepeats(world.ecs.systems)

C9_Witness ==
    /\ hist.op = "reset_world"
    /\ hist.pre.world.entities # <<>>
    /\ ComponentIds(hist.pre.world.ecs) # {}

\* C10: after every completed start_new_epoch the population holds exactly
\* world.population_size agents, each registered in the world by add_entity
C10_RolloverInstallsTargetSize ==
    hist.op \in {"start_new_epoch", "run_epoch_rollover"} =>
        /\ Len(population) = population_size
        /\ NoRepeats(population)
        /\ \A h \in SeqSet(population) :
               /\ world.heap[h].kind = "agent"
               /\ Registered(world, h)
               /\ \A k \in {"transform", "tag", "behavior"} :
                      ECS_get_component(world.ecs, world.heap[h].ecs_id, k) # None

\* a rollover completed from a non-empty ending population
C10_Witness ==
    /\ hist.op = "start_new_epoch"
    /\ metrics.population_size[Len(metrics.population_size)] > 0

\* a rollover completed from the empty ending population
C10_WitnessEmpty ==
    /\ hist.op = "run_epoch_rollover"
    /\ metrics.population_size[Len(metrics.population_size)] = 0

\* a measure of what run_epoch still has to do: the steps left before the cap, and within
\* one step the agents left in the pass
EpochVariant ==
    LET W == population_size + 3
        base == (max_steps - step) * W + 2
    IN  CASE pc = "epoch_loop" -> base + W - 1
          [] pc = "update" -> base + (population_size + 1 - idx) + 1
          [] pc = "updated" -> base
          [] pc = "epoch_end" -> 1
          [] OTHER -> 0

\* C11: run_epoch always terminates: every step it takes lowers a measure that is never
\* negative, each pass of its loop raises `step` by one, update is only started while
\* step < 1000 and the population is not empty, and the loop is left as soon as the
\* population is empty
C11_RunEpochTerminates ==
    /\ [](in_epoch => (step <= max_steps /\ EpochVariant >= 0))
    /\ [][in_epoch => (~in_epoch' \/ EpochVariant' < EpochVariant)]_vars
    /\ [][(in_epoch /\ pc = "epoch_loop" /\ pc' = "update")
              => (population # <<>> /\ step < max_steps)]_vars
    /\ [][(in_epoch /\ pc = "epoch_loop" /\ population = <<>>) => pc' = "epoch_end"]_vars
    /\ [][(in_epoch /\ pc = "updated") => step' = step + 1]_vars

\* the loop was left after at least one update because the population became empty
C11_Witness ==
    /\ pc = "epoch_end"
    /\ step > 0
    /\ population = <<>>

(***************************************************************************)
(* Properties of the DQNetwork (SpecDQN, SpecNpz).                         *)
(***************************************************************************)
MainRefs(d) == {d.main_network[f] : f \in ParamNames}
TargetRefs(d) == {d.target_network[f] : f \in ParamNames}

\* C12: epsilon is never below epsilon_min; a train call multiplies it by the decay factor
\* while it is above the floor and leaves it as it is afterwards
C12_EpsilonNeverBelowFloor ==
    /\ dqn.epsilon >= epsilon_min
    /\ (hist.op = "train" /\ ~hist.raised) =>
           dqn.epsilon = IF hist.net0.epsilon > epsilon_min
                         THEN Decay(hist.net0.epsilon) ELSE hist.net0.epsilon

\* C13: the target network's parameters equal the main network's parameters as they were
\* at the most recent update_target_network (construction included), train leaves every
\* target parameter as it was, and no target array is a main array
C13_TargetEqualsLastSync ==
    /\ Params(dqn, dqn.target_network) = hist.synced
    /\ TargetRefs(dqn) \cap MainRefs(dqn) = {}
    /\ hist.op = "train" =>
           Params(dqn, dqn.target_network) = Params(hist.net0, hist.net0.target_network)

\* train has changed the main network and the target still holds the synced values
C13_Witness ==
    /\ hist.op = "train"
    /\ Params(dqn, dqn.main_network) # Params(hist.net0, hist.net0.main_network)
    /\ Params(dqn, dqn.main_network) # Params(dqn, dqn.target_network)

\* C14: train with an action index outside 0..action_size-1 fails, and every parameter of
\* both networks and epsilon are as before the call
C14_BadActionIndexCommitsNothing ==
    (hist.op = "train" /\ hist.call.action \notin 0..(action_size - 1)) =>
        /\ hist.raised
        /\ dqn = hist.net0

\* C15: select_action returns an action in 0..action_size-1 and changes no parameter and
\* not epsilon; with exploration_rate 0.0 it does not take the random branch and returns
\* the lowest index of a maximal action value of the main network
C15_SelectActionGreedyAndPure ==
    hist.op = "select_action" =>
        /\ hist.result \in 0..(action_size - 1)
        /\ Params(dqn, dqn.main_network) = Params(hist.net0, hist.net0.main_network)
        /\ Params(dqn, dqn.target_network) = Params(hist.net0, hist.net0.target_network)
        /\ dqn.epsilon = hist.net0.epsilon
        /\ hist.call.exploration_rate = 0 =>
               /\ ~hist.explored
               /\ LET q == forward(Params(dqn, dqn.main_network),
                                   encode_state(hist.call.state)).final_outputs
                      a == hist.result + 1
                  IN  \A k \in 1..action_size : q[k] <= q[a] /\ (k < a => q[k] < q[a])

\* a greedy selection whose maximal value is not at index 0
C15_Witness ==
    /\ hist.op = "select_action"
    /\ hist.call.exploration_rate = 0
    /\ hist.result > 0

\* a selection with exploration_rate 1.0, which takes the random branch
C15_WitnessRandom ==
    /\ hist.op = "select_action"
    /\ hist.call.exploration_rate = InitialEpsilon
    /\ hist.explored

\* the action select_action returns with exploration_rate 0
GreedyAction(p, state) == np_argmax(forward(p, encode_state(state)).final_outputs)

\* C16: load(name) after save(name) with the same name restores the four parameter arrays
\* as they were saved, so the greedy action for every state is the one before the save
C16_SaveLoadRoundTrip ==
    (hist.op = "load" /\ hist.saved # None /\ hist.call.filename = hist.saved.filename) =>
        /\ ~hist.raised
        /\ Params(dqn, dqn.main_network) = hist.saved.params
        /\ \A state \in Levels :
               GreedyAction(Params(dqn, dqn.main_network), state)
                   = GreedyAction(hist.saved.params, state)

\* with a name that ends in ".npz" the round trip restores the parameters
C16_NpzNameRoundTrip ==
    (hist.op = "load" /\ hist.saved # None /\ hist.call.filename = hist.saved.filename
        /\ NpzName(hist.call.filename) = hist.call.filename) =>
        /\ ~hist.raised
        /\ Params(dqn, dqn.main_network) = hist.saved.params

(***************************************************************************)
(* SpecEpoch: run_epoch from a point of its loop on.  `step` ticks have    *)
(* been made, so every agent is at least `step` ticks old; the world has   *)
(* the resources create_resources gave it, or none.                        *)
(***************************************************************************)
\* the numbers of ticks made so far: the 20th, the 50th and the 101st tick are near
EpochSteps == {18, 48, 99}

\* an agent that was new when run_epoch started, and an agent one tick older with
\* little energy
EpochAgentInits(s) ==
    { [age |-> s, energy |-> 50, stamina |-> 2, metabolism |-> 2, pos |-> 1],
      [age |-> s + 1, energy |-> 3, stamina |-> 1, metabolism |-> 2, pos |-> 1] }

InitEpoch ==
    \E s \in EpochSteps :
      \E inits \in [1..population_size -> EpochAgentInits(s)], with_resources \in BOOLEAN :
        /\ world = IF with_resources
                   THEN \* the resources in the agents' cell
                        create_resources(initialize_population(NewWorld, inits),
                                         [i \in 1..food_count |-> 1],
                                         [i \in 1..work_count |-> 1])
                   ELSE initialize_population(NewWorld, inits)
        /\ population = [i \in 1..population_size |-> i]
        /\ epoch = 0
        /\ pc = "epoch_loop"
        /\ in_epoch = TRUE
        /\ step = s
        /\ idx = 0
        /\ agents_to_remove = <<>>
        /\ metrics = InitMetrics
        /\ dqn = None
        /\ files = EmptyMap
        /\ hist = InitHist

NextEpoch ==
    \/ EpochLoop
    \/ UpdateAgent
    \/ UpdateRemoveDead
    \/ UpdateReturn
    \/ EpochEnd
    \/ Repopulate

SpecEpoch == InitEpoch /\ [][NextEpoch]_vars

(***************************************************************************)
(* SpecResources: World.create_food, World.create_work and the rollover,   *)
(* in a world to which food and workplaces were added with add_entity,     *)
(* fewer or more than the targets.                                         *)
(***************************************************************************)
RECURSIVE AddObjects(_, _, _)
\* World.add_entity called n times with a new entity of the kind
AddObjects(w, kind, n) ==
    IF n = 0 THEN w
    ELSE LET w1 == Alloc(w, NewObject(kind, 1, 0, 0, 1, 2))
         IN  AddObjects(World_add_entity(w1, Len(w1.heap)), kind, n - 1)

InitResources ==
    \E nf \in 0..(food_count + 1), nw \in 0..(work_count + 1) :
        /\ world = AddObjects(AddObjects(NewWorld, "food", nf), "work", nw)
        /\ population = <<>>
        /\ epoch = 0
        /\ pc = "idle"
        /\ in_epoch = FALSE
        /\ step = 0
        /\ idx = 0
        /\ agents_to_remove = <<>>
        /\ metrics = InitMetrics
        /\ dqn = None
        /\ files = EmptyMap
        /\ hist = InitHist

\* a call World.create_food()
WorldCreateFood ==
    /\ pc = "idle"
    /\ hist.calls < MaxCalls
    /\ \E cells \in [1..food_count -> Cells] : world' = World_create_food(world, cells)
    /\ hist' = [hist EXCEPT !.op = "create_food", !.calls = @ + 1, !.pre = Snapshot]
    /\ UNCHANGED control

\* a call World.create_work()
WorldCreateWork ==
    /\ pc = "idle"
    /\ hist.calls < MaxCalls
    /\ \E wcells \in [1..work_count -> Cells] : world' = World_create_work(world, wcells)
    /\ hist' = [hist EXCEPT !.op = "create_work", !.calls = @ + 1, !.pre = Snapshot]
    /\ UNCHANGED control

NextResources ==
    \/ WorldCreateFood
    \/ WorldCreateWork
    \/ StartNewEpochCall
    \/ Repopulate

SpecResources == InitResources /\ [][NextResources]_vars

(***************************************************************************)
(* SpecFamily: Population.create_agent, with and without parents, on the   *)
(* agent objects created so far.  Money is kept in units of                *)
(* 1 / 20^MaxCalls, in which the tenth and its half are exact for MaxCalls *)
(* generations.                                                            *)
(***************************************************************************)
MoneyUnit == 20 ^ MaxCalls

\* the money an agent object starts with, in whole units of currency
InitialMoney == {0, 1, 5}

\* Agent(idx, screen): a new agent object, not yet in the world
NewAgent(agent_idx, money) ==
    [kind |-> "agent", ecs_id |-> NoId, pos |-> 1, age |-> 0, energy |-> EnergyCap,
     stamina |-> 1, metabolism |-> 2, id |-> agent_idx, money |-> money, generation |-> 0,
     offspring_count |-> 0, offspring_generations |-> 0]

\* the default of create_agent's parent1 and parent2 (None): no handle
NoParent == 0

\* Population.create_agent(idx, parent1, parent2), the parents given as handles;
\* yields the world with the new object last in the heap, and the metrics
create_agent(w, m, agent_idx, parent1, parent2, money) ==
    IF parent1 # NoParent /\ parent2 # NoParent
    THEN LET inheritance == (w.heap[parent1].money + w.heap[parent2].money) \div 10
             \* the two `-=` in turn: parent1 and parent2 may be the same object
             w1 == [w EXCEPT !.heap[parent1].money = @ - (inheritance \div 2)]
             w2 == [w1 EXCEPT !.heap[parent2].money = @ - (inheritance \div 2)]
             generation == Max(w2.heap[parent1].generation, w2.heap[parent2].generation) + 1
             agent == [NewAgent(agent_idx, inheritance) EXCEPT !.generation = generation]
             w3 == [w2 EXCEPT !.heap[parent1].offspring_count = @ + 1]
             w4 == [w3 EXCEPT !.heap[parent2].offspring_count = @ + 1]
             w5 == [w4 EXCEPT !.heap[parent1].offspring_generations = Max(@, generation)]
             w6 == [w5 EXCEPT !.heap[parent2].offspring_generations = Max(@, generation)]
         IN  [world |-> Alloc(w6, agent),
              metrics |-> [m EXCEPT !.births_this_epoch = @ + 1]]
    ELSE [world |-> Alloc(w, NewAgent(agent_idx, money)), metrics |-> m]

InitFamily ==
    \E m1 \in InitialMoney, m2 \in InitialMoney :
        /\ world = Alloc(Alloc(NewWorld, NewAgent(0, m1 * MoneyUnit)),
                         NewAgent(1, m2 * MoneyUnit))
        /\ population = <<>>
        /\ epoch = 0
        /\ pc = "idle"
        /\ in_epoch = FALSE
        /\ step = 0
        /\ idx = 0
        /\ agents_to_remove = <<>>
        /\ metrics = InitMetrics
        /\ dqn = None
        /\ files = EmptyMap
        /\ hist = InitHist

\* self.create_agent(idx, parent1, parent2) with two different agents as parents
CreateAgentFromParents ==
    /\ hist.calls < MaxCalls
    /\ \E parent1 \in 1..Len(world.heap), parent2 \in 1..Len(world.heap) :
         /\ parent1 # parent2
         /\ LET r == create_agent(world, metrics, Len(world.heap), parent1, parent2, 0)
            IN  /\ world' = r.world
                /\ metrics' = r.metrics
         /\ hist' = [hist EXCEPT !.op = "create_agent", !.calls = @ + 1, !.pre = Snapshot,
                                 !.parents = <<parent1, parent2>>]
    /\ UNCHANGED <<population, epoch, pc, in_epoch, step, idx, agents_to_remove, dqn, files>>

\* self.create_agent(idx): a new agent without parents
CreateAgentRandom ==
    /\ hist.calls < MaxCalls
    /\ \E money \in InitialMoney :
         LET r == create_agent(world, metrics, Len(world.heap), NoParent, NoParent,
                              money * MoneyUnit)
         IN  /\ world' = r.world
             /\ metrics' = r.metrics
    /\ hist' = [hist EXCEPT !.op = "create_agent_random", !.calls = @ + 1, !.pre = Snapshot,
                            !.parents = <<>>]
    /\ UNCHANGED <<population, epoch, pc, in_epoch, step, idx, agents_to_remove, dqn, files>>

NextFamily ==
    \/ CreateAgentFromParents
    \/ CreateAgentRandom

SpecFamily == InitFamily /\ [][NextFamily]_vars

(***************************************************************************)
(* SpecSystems: add_system and update called on the ECS of a world, before *)
(* or after World.setup_systems.                                           *)
(***************************************************************************)
\* number of add_system calls made after construction
MaxSystems == 3

\* the systems handed to add_system; a system may be handed over again
SystemsAdded == {"movement", "spatial", "render"}

InitSystems ==
    /\ \E set_up \in BOOLEAN :
         /\ world = IF set_up THEN NewWorld ELSE [NewWorld EXCEPT !.ecs = NewECS]
         /\ hist = [InitHist EXCEPT !.added = IF set_up THEN SystemNames ELSE <<>>]
    /\ population = <<>>
    /\ epoch = 0
    /\ pc = "idle"
    /\ in_epoch = FALSE
    /\ step = 0
    /\ idx = 0
    /\ agents_to_remove = <<>>
    /\ metrics = InitMetrics
    /\ dqn = None
    /\ files = EmptyMap

\* a direct call ECS.add_system(system)
EcsAddSystem ==
    /\ hist.calls < MaxSystems
    /\ \E system \in SystemsAdded :
         /\ world' = [world EXCEPT !.ecs = ECS_add_system(world.ecs, system)]
         /\ hist' = [hist EXCEPT !.op = "add_system", !.calls = @ + 1,
                                 !.added = Append(@, system), !.invoked = <<>>]
    /\ UNCHANGED control

\* a call ECS.update(dt)
EcsUpdate ==
    /\ hist' = [hist EXCEPT !.op = "ecs_update", !.invoked = ECS_update(world.ecs)]
    /\ UNCHANGED <<world, control>>

NextSystems ==
    \/ EcsAddSystem
    \/ EcsUpdate

SpecSystems == InitSystems /\ [][NextSystems]_vars

(***************************************************************************)
(* execute_action: Rest and Work (SpecAction).                             *)
(***************************************************************************)
WorkplaceIdsOf(w) ==
    IF "workplace" \in DOMAIN w.ecs.components THEN DOMAIN w.ecs.components["workplace"] ELSE {}

Workplace(w, id) == ECS_get_component(w.ecs, id, "workplace")

\* the balance of the wallet of an entity, 0 when it has none
Money(w, id) ==
    LET c == ECS_get_component(w.ecs, id, "wallet") IN IF c = None THEN 0 ELSE c.money

WalletIdsOf(w) ==
    IF "wallet" \in DOMAIN w.ecs.components THEN DOMAIN w.ecs.components["wallet"] ELSE {}

\* C17: when an agent with stamina s and energy e executes Rest, its energy becomes
\* min(100, e + 10 * s) and the reward returned is the energy gained (energy after minus
\* energy before) divided by 20, also when the cap applies.
C17_RestRewardIsEnergyGained ==
    hist.op = "rest" =>
        LET before == hist.pre.world.heap[hist.agent]
            after == world.heap[hist.agent]
        IN  /\ after.energy = Min(EnergyCap, before.energy + RestGainPerStamina * before.stamina)
            /\ hist.reward.num * 20 = (after.energy - before.energy) * hist.reward.den

\* C18: in every Work action the amount added to the agent's wallet is the amount added
\* to the expenses of the workplace joined, base_wage * 0.1, and the reward is that amount
\* divided by 5; when the reward is 0, no wallet balance and no expenses have changed.
\* (Money is kept in tenths, so the reward is the amount over 50.)
C18_WorkPaysWhatItBooks ==
    hist.op = "work" =>
        LET w0 == hist.pre.world
            a == world.heap[hist.agent].ecs_id
            paid == Money(world, a) - Money(w0, a)
            booked == {id \in WorkplaceIdsOf(world) :
                          Workplace(world, id).expenses # Workplace(w0, id).expenses}
        IN  /\ WorkplaceIdsOf(world) = WorkplaceIdsOf(w0)
            /\ WalletIdsOf(world) = WalletIdsOf(w0)
            /\ paid >= 0
            /\ paid > 0 =>
                   \E id \in WorkplaceIdsOf(world) :
                       /\ booked = {id}
                       /\ Workplace(world, id).expenses - Workplace(w0, id).expenses = paid
                       /\ paid = Workplace(w0, id).base_wage
                       /\ a \in Workplace(world, id).workers
            /\ paid = 0 => booked = {}
            /\ hist.reward.num * 50 = paid * hist.reward.den
            /\ \A id \in WalletIdsOf(world) \ {a} : Money(world, id) = Money(w0, id)
            /\ hist.reward.num = 0 =>
                   /\ \A id \in WalletIdsOf(world) : Money(world, id) = Money(w0, id)
                   /\ booked = {}

\* a Work action that paid the agent
C18_Witness ==
    /\ hist.op = "work"
    /\ hist.reward.num > 0
    /\ Money(world, world.heap[hist.agent].ecs_id)
           > Money(hist.pre.world, world.heap[hist.agent].ecs_id)

\* a Work action that returned 0 although a workplace was in reach
C18_WitnessZero ==
    /\ hist.op = "work"
    /\ hist.reward.num = 0
    /\ Grid_get_entities_by_tag(hist.pre.world, "work", world.heap[hist.agent].pos) # <<>>

\* C19: one Work action adds the agent to the workers of at most one workplace, the first
\* in query order with spare capacity, and the agent is paid whenever it is added; no
\* workplace ever has more workers than max_workers.
C19_WorkJoinsOnePaidWorkplace ==
    /\ \A id \in WorkplaceIdsOf(world) :
           Cardinality(Workplace(world, id).workers) <= Workplace(world, id).max_workers
    /\ hist.op = "work" =>
           LET w0 == hist.pre.world
               a == world.heap[hist.agent].ecs_id
               query == Grid_get_entities_by_tag(w0, "work", w0.heap[hist.agent].pos)
               spare == {i \in 1..Len(query) :
                            /\ Workplace(w0, query[i]) # None
                            /\ Cardinality(Workplace(w0, query[i]).workers)
                                   < Workplace(w0, query[i]).max_workers}
               first == CHOOSE i \in spare : \A j \in spare : i <= j
               joined == {id \in WorkplaceIdsOf(world) :
                             a \in Workplace(world, id).workers \ Workplace(w0, id).workers}
           IN  /\ Cardinality(joined) <= 1
               /\ joined \subseteq (IF spare = {} THEN {} ELSE {query[first]})
               /\ joined # {} => Money(world, a) > Money(w0, a)

C20_WitnessDead ==
    /\ pc = "updated"
    /\ Len(hist.processed) = population_size
    /\ agents_to_remove # <<>>
    /\ Len(population) < population_size

(***************************************************************************)
(* The systems of the ECS.                                                 *)
(***************************************************************************)
\* the place of a system in a list of systems, 0 when it is not in it
Place(systems, name) ==
    IF \E i \in 1..Len(systems) : systems[i] = name
    THEN CHOOSE i \in 1..Len(systems) : systems[i] = name
    ELSE 0

\* C21: in the list of systems World.setup_systems registers, initially and after every
\* reset_world, movement comes before spatial sync, spatial sync before behavior and
\* behavior before render.
C21_SystemOrder ==
    LET systems == world.ecs.systems
    IN  /\ \A name \in {"movement", "spatial", "behavior", "render"} : Place(systems, name) > 0
        /\ Place(systems, "movement") < Place(systems, "spatial")
        /\ Place(systems, "spatial") < Place(systems, "behavior")
        /\ Place(systems, "behavior") < Place(systems, "render")

\* C22: each ECS.update call invokes the update of every registered system once, in the
\* order of the add_system calls, whatever add_system calls were made.
C22_UpdateInRegistrationOrder ==
    /\ world.ecs.systems = hist.added
    /\ hist.op = "ecs_update" => hist.invoked = hist.added

\* an update after add_system calls that handed over different systems
C22_Witness ==
    /\ hist.op = "ecs_update"
    /\ hist.calls >= 2
    /\ Len(hist.invoked) >= 2
    /\ hist.invoked[Len(hist.invoked)] # hist.invoked[Len(hist.invoked) - 1]

(***************************************************************************)
(* run_epoch: the resources spawned between ticks (SpecEpoch).             *)
(***************************************************************************)
\* C23: during run_epoch create_food is called exactly after the ticks whose number is a
\* multiple of 20 and create_work exactly after those whose number is a multiple of 50,
\* and right after such a call the world holds at least food_count food entities
\* (work_count workplaces).
C23_ReplenishEvery20And50 ==
    /\ []((in_epoch /\ pc = "epoch_loop" /\ hist.op = "update_return") =>
             /\ ("food" \in hist.created) <=> (step % 20 = 0)
             /\ ("work" \in hist.created) <=> (step % 50 = 0)
             /\ "food" \in hist.created => CountKind(world, "food") >= food_count
             /\ "work" \in hist.created => CountKind(world, "work") >= work_count)
    /\ [][(in_epoch /\ pc \in {"epoch_loop", "update"}) =>
             /\ CountKind(world', "food") = CountKind(world, "food")
             /\ CountKind(world', "work") = CountKind(world, "work")]_vars
    /\ [][(in_epoch /\ pc = "updated") =>
             /\ CountKind(world', "food") # CountKind(world, "food") => step' % 20 = 0
             /\ CountKind(world', "work") # CountKind(world, "work") => step' % 50 = 0]_vars

\* tick 20 has been made and food was spawned in a world that had none
C23_Witness ==
    /\ in_epoch /\ pc = "epoch_loop" /\ hist.op = "update_return"
    /\ step = 20
    /\ hist.created = {"food"}
    /\ CountKind(world, "food") = food_count
    /\ CountKind(world, "work") = 0

\* tick 50 has been made and workplaces were spawned, no food
C23_WitnessWork ==
    /\ in_epoch /\ pc = "epoch_loop" /\ hist.op = "update_return"
    /\ step = 50
    /\ hist.created = {"work"}
    /\ CountKind(world, "work") = work_count
    /\ CountKind(world, "food") = 0

\* C26: every agent is removed from the population no later than the tick in which its age
\* becomes 101, whatever it does; no action adds agents, so a run_epoch started with agents
\* of age 0 or more ends with an empty population within 101 ticks, never at the step cap.
C26_ExtinctWithin101Ticks ==
    /\ [](pc # "update" =>
             \A i \in 1..Len(population) : world.heap[population[i]].age <= LifespanCap)
    /\ [](pc = "update" =>
             \A i \in 1..(idx - 1) :
                 world.heap[population[i]].age > LifespanCap
                     => population[i] \in SeqSet(agents_to_remove))
    /\ [](in_epoch /\ pc \in {"epoch_loop", "update", "updated", "epoch_end"} =>
             /\ step <= LifespanCap + 1
             /\ step < max_steps
             /\ pc = "epoch_end" => population = <<>>)
    /\ [][(in_epoch /\ pc \in {"epoch_loop", "update", "updated"}) =>
             SeqSet(population') \subseteq SeqSet(population)]_vars

\* run_epoch has left its loop after its 101st tick, in which the last agent was removed
C26_Witness ==
    /\ in_epoch /\ pc = "epoch_end"
    /\ step = LifespanCap + 1
    /\ population = <<>>
    /\ agents_to_remove # <<>>

(***************************************************************************)
(* execute_action: Eat (SpecAction).                                       *)
(***************************************************************************)
\* C24: when an agent executes Eat and a food entity is in range, that food is consumed
\* (removed from the world) and the reward reflects the hunger relief; when no food is in
\* range, the reward is 0 and neither the world nor the agent changes.
C24_EatConsumesFoodInRange ==
    hist.op = "eat" =>
        LET w0 == hist.pre.world
            in_range == Grid_get_entities_by_tag(w0, "food", w0.heap[hist.agent].pos)
        IN  /\ in_range # <<>> =>
                   /\ \E i \in 1..Len(in_range) :
                          /\ in_range[i] \notin world.ecs.entities
                          /\ in_range[i] \notin GridIds(world.spatial_grid)
                   /\ CountKind(world, "food") = CountKind(w0, "food") - 1
                   /\ hist.reward.num > 0
            /\ in_range = <<>> =>
                   /\ hist.reward.num = 0
                   /\ world = w0

(***************************************************************************)
(* The rollover started by run_epoch.                                      *)
(***************************************************************************)
\* C25: whenever start_new_epoch is reached from run_epoch, the previous population it
\* hands to evolve_population is empty, so the population size recorded for the finished
\* epoch is 0 and no agent of that epoch is passed on.
C25_RolloverFromRunEpochHasNoSurvivors ==
    /\ []((in_epoch /\ pc = "rollover") =>
             /\ hist.pre.population = <<>>
             /\ population = <<>>
             /\ Len(metrics.population_size) > 0
             /\ metrics.population_size[Len(metrics.population_size)] = 0)
    /\ [][(in_epoch /\ pc = "epoch_end" /\ pc' = "rollover") =>
             /\ population = <<>>
             /\ metrics'.population_size = Append(metrics.population_size, 0)]_vars

\* start_new_epoch has been entered from a run_epoch in which agents died
C25_Witness ==
    /\ in_epoch /\ pc = "rollover"
    /\ step > 0
    /\ metrics.deaths_this_epoch = population_size
    /\ hist.pre.world.entities # <<>>

(***************************************************************************)
(* Workers and the death counter.                                          *)
(***************************************************************************)
\* C27: every id in a workplace's worker set is the ecs_id of an agent that is in the
\* population: when an agent dies and is removed from the world its id leaves every
\* worker set, and the capacity it used is free again.
C27_WorkersAreLiveAgents ==
    pc = "idle" =>
        \A id \in WorkplaceIdsOf(world) :
            Workplace(world, id).workers
                \subseteq {world.heap[population[i]].ecs_id : i \in 1..Len(population)}

\* C28: deaths_this_epoch is the number of agents removed from the population during the
\* current epoch: it rises by one for each agent removed and starts again from 0 when
\* start_new_epoch begins a new epoch.
C28_DeathsCountedPerEpoch ==
    /\ [](hist.op \in {"start_new_epoch", "run_epoch_rollover"} =>
             metrics.deaths_this_epoch = 0)
    /\ [][metrics'.deaths_this_epoch # metrics.deaths_this_epoch =>
             \/ metrics'.deaths_this_epoch - metrics.deaths_this_epoch
                    = Len(population) - Len(population')
             \/ metrics'.deaths_this_epoch = 0]_vars

(***************************************************************************)
(* create_food, create_work and create_resources (SpecResources).          *)
(***************************************************************************)
\* C29: create_food and create_work only top up and are idempotent: after a call the
\* number of food entities (workplaces) in world.entities is max(previous count, target);
\* after create_resources in a rollover the world holds exactly food_count food entities
\* and work_count workplaces.
C29_CreateTopsUpToTarget ==
    /\ hist.op = "create_food" =>
           /\ CountKind(world, "food") = Max(CountKind(hist.pre.world, "food"), food_count)
           /\ CountKind(world, "work") = CountKind(hist.pre.world, "work")
           /\ CountKind(hist.pre.world, "food") >= food_count => world = hist.pre.world
           /\ \A cells \in [1..food_count -> Cells] : World_create_food(world, cells) = world
    /\ hist.op = "create_work" =>
           /\ CountKind(world, "work") = Max(CountKind(hist.pre.world, "work"), work_count)
           /\ CountKind(world, "food") = CountKind(hist.pre.world, "food")
           /\ CountKind(hist.pre.world, "work") >= work_count => world = hist.pre.world
           /\ \A wcells \in [1..work_count -> Cells] : World_create_work(world, wcells) = world
    /\ hist.op \in {"start_new_epoch", "run_epoch_rollover"} =>
           /\ CountKind(world, "food") = food_count
           /\ CountKind(world, "work") = work_count

\* create_food has topped up a world that had fewer food entities than the target
C29_Witness ==
    /\ hist.op = "create_food"
    /\ CountKind(hist.pre.world, "food") < food_count
    /\ CountKind(world, "food") = food_count

\* create_food was called in a world with more food entities than the target
C29_WitnessAbove ==
    /\ hist.op = "create_food"
    /\ CountKind(hist.pre.world, "food") > food_count
    /\ world = hist.pre.world

\* a rollover is complete in a world that had more resources than the targets
C29_WitnessRollover ==
    /\ hist.op = "start_new_epoch"
    /\ Len(metrics.population_size) = 1
    /\ hist.calls = MaxCalls
    /\ Len(world.entities) = population_size + food_count + work_count

(***************************************************************************)
(* create_agent (SpecFamily).                                              *)
(***************************************************************************)
\* C30: create_agent with two distinct parents conserves money and keeps it non-negative:
\* the money of the parents and the child after the call adds up to the money of the
\* parents before it, and if no parent's money was negative before, none is after.
C30_InheritanceConservesMoney ==
    hist.op = "create_agent" =>
        LET p1 == hist.parents[1]
            p2 == hist.parents[2]
            before == hist.pre.world.heap
            after == world.heap
            child == after[Len(after)]
        IN  /\ after[p1].money + after[p2].money + child.money
                   = before[p1].money + before[p2].money
            /\ (before[p1].money >= 0 /\ before[p2].money >= 0) =>
                   (after[p1].money >= 0 /\ after[p2].money >= 0)

\* the tenth and its half were exact in every create_agent call made
C30_MoneyIsExact ==
    \A h \in 1..Len(world.heap) :
        world.heap[h].money % (20 ^ (MaxCalls - hist.calls)) = 0

====
